---- MODULE Spec2Model ----
(***************************************************************************)
(* go-to-dashboard: menu filtering and URL templating over a pod's JSON.   *)
(*                                                                         *)
(* Strings are sequences of one-character strings.  A JSON value is a      *)
(* record with a kind tag k and one payload field per kind; an object is a *)
(* sequence of [key, val] entries with distinct keys (Go visits them in an *)
(* unspecified order, so nothing below depends on their position).         *)
(***************************************************************************)
EXTENDS Integers, Sequences, FiniteSets, TLC

VARIABLES
    pc,      \* where the run is
    src,     \* a pattern source, as written in the configuration
    cand,    \* a candidate string offered to a compiled pattern
    cfg,     \* the Config
    err,     \* the error of LoadConfig / ValidateConfig
    pd,      \* the *PodData
    ret,     \* what the last call returned
    env,     \* main: the command line and the configuration file
    podErr,  \* main: whether fetching the pod failed
    items,   \* main: the filtered menu items
    lines,   \* main: the menu lines handed to the chooser
    selected,\* main: what the chooser printed
    opened   \* main: the URLs opened and the listings exported

vars == <<pc, src, cand, cfg, err, pd, ret, env, podErr, items, lines, selected, opened>>

(***************************************************************************)
(* Bounds of the model.                                                    *)
(***************************************************************************)
MaxPatLen == 2
MaxStrLen == 2
MaxSeqLen == 2
MaxConds  == 2
MaxItems  == 3
MaxVars   == 2
MaxDepth  == 3

(***************************************************************************)
(* Strings.                                                                *)
(***************************************************************************)
Letters == {"k", "m"}

\* The regular-expression syntax exercised by the model: two letters, any
\* character, repetition, alternation, the two anchors, escape and groups.
PatChars == Letters \cup {".", "*", "|", "^", "$", "\\", "(", ")"}

\* The sequences over A of length at most n.
StringsUpTo(A, n) == UNION {[1 .. len -> A] : len \in 0 .. n}

\* The characters of the model in the order of their codes, and the order of
\* strings that Go's < and sort.Strings use (byte by byte).
Ascii ==
    <<"\t", "\n", "\r", " ", "$", "&", "(", ")", "*", "+", "-", ".", "/",
      "0", "1", "2", "3", "4", "5", "6", "7", "8", "9", ":", "<", "=", ">",
      "A", "B", "C", "D", "E", "F", "G", "L", "N", "O", "P", "S", "T", "U", "V", "X",
      "[", "\\", "]", "^", "_",
      "a", "e", "f", "h", "i", "k", "l", "m", "n", "p", "r", "s", "t", "u", "x", "|">>

Code(c) == CHOOSE i \in DOMAIN Ascii : Ascii[i] = c

RECURSIVE StrLess(_, _)
StrLess(a, b) ==
    IF b = <<>> THEN FALSE
    ELSE IF a = <<>> THEN TRUE
    ELSE IF a[1] = b[1] THEN StrLess(Tail(a), Tail(b))
    ELSE Code(a[1]) < Code(b[1])

HasPrefix(s, c) == Len(s) >= 1 /\ s[1] = c
HasSuffix(s, c) == Len(s) >= 1 /\ s[Len(s)] = c

(***************************************************************************)
(* anchorPattern: "^" is put in front unless the source starts with "^",   *)
(* then "$" is put behind unless the text ends with "$".  The source is    *)
(* not grouped.                                                            *)
(***************************************************************************)
\* A slip of anchorPattern: the two ends are decided together.
anchorPatternBothOrNone(p) ==
    IF ~HasPrefix(p, "^") /\ ~HasSuffix(p, "$") THEN <<"^">> \o p \o <<"$">> ELSE p

anchorPattern(p) ==
    LET p1 == IF ~HasPrefix(p, "^") THEN <<"^">> \o p ELSE p
    IN  IF ~HasSuffix(p1, "$") THEN p1 \o <<"$">> ELSE p1

(***************************************************************************)
(* regexp.Compile on the syntax above.  The scan follows the parser of Go's *)
(* regexp/syntax with the Perl env: a repetition needs an operand (not   *)
(* the start, "(" or "|" before it) and may not follow a repetition; "\"   *)
(* must be followed by a character, and a letter after it is no escape of  *)
(* this syntax; parentheses balance.                                       *)
(***************************************************************************)
RECURSIVE ParseScan(_, _, _, _)
ParseScan(p, i, depth, prev) ==
    IF i > Len(p) THEN depth = 0
    ELSE LET c == p[i] IN
         CASE c = "\\" -> /\ i + 1 <= Len(p)
                          /\ p[i + 1] \notin Letters
                          /\ ParseScan(p, i + 2, depth, "atom")
           [] c = "*"  -> prev = "atom" /\ ParseScan(p, i + 1, depth, "rep")
           [] c = "("  -> ParseScan(p, i + 1, depth + 1, "none")
           [] c = ")"  -> depth > 0 /\ ParseScan(p, i + 1, depth - 1, "atom")
           [] c = "|"  -> ParseScan(p, i + 1, depth, "none")
           [] OTHER    -> ParseScan(p, i + 1, depth, "atom")

CompileOK(p) == ParseScan(p, 1, 0, "none")

\* The end of the atom that starts at p[lo] (p is a valid expression).
RECURSIVE CloseParen(_, _, _)
CloseParen(p, i, depth) ==
    CASE p[i] = "\\" -> CloseParen(p, i + 2, depth)
      [] p[i] = "("  -> CloseParen(p, i + 1, depth + 1)
      [] p[i] = ")"  -> IF depth = 1 THEN i ELSE CloseParen(p, i + 1, depth - 1)
      [] OTHER       -> CloseParen(p, i + 1, depth)

AtomEnd(p, lo) ==
    CASE p[lo] = "\\" -> lo + 1
      [] p[lo] = "("  -> CloseParen(p, lo, 0)
      [] OTHER        -> lo

\* The first "|" of p[lo..hi] outside groups and escapes, or 0.
RECURSIVE TopBar(_, _, _)
TopBar(p, lo, hi) ==
    IF lo > hi THEN 0
    ELSE IF p[lo] = "|" THEN lo
    ELSE TopBar(p, AtomEnd(p, lo) + 1, hi)

(***************************************************************************)
(* Matching.  EndsAlt(p, lo, hi, s, P) is the set of positions of s (0 is  *)
(* before the first character) at which a match of p[lo..hi] that starts   *)
(* at a position of P can end.  "^" and "$" are the start and the end of   *)
(* the text; "." is any character but the newline (no flag is set).        *)
(***************************************************************************)
RECURSIVE EndsAlt(_, _, _, _, _)
RECURSIVE EndsConcat(_, _, _, _, _)
RECURSIVE EndsAtom(_, _, _, _, _)
RECURSIVE EndsStar(_, _, _, _, _)

EndsAtom(p, lo, hi, s, P) ==
    CASE p[lo] = "\\" -> {i + 1 : i \in {j \in P : j < Len(s) /\ s[j + 1] = p[lo + 1]}}
      [] p[lo] = "("  -> EndsAlt(p, lo + 1, hi - 1, s, P)
      [] p[lo] = "."  -> {i + 1 : i \in {j \in P : j < Len(s) /\ s[j + 1] # "\n"}}
      [] p[lo] = "^"  -> {i \in P : i = 0}
      [] p[lo] = "$"  -> {i \in P : i = Len(s)}
      [] OTHER        -> {i + 1 : i \in {j \in P : j < Len(s) /\ s[j + 1] = p[lo]}}

EndsStar(p, lo, hi, s, P) ==
    LET Q == P \cup EndsAtom(p, lo, hi, s, P)
    IN  IF Q = P THEN P ELSE EndsStar(p, lo, hi, s, Q)

EndsConcat(p, lo, hi, s, P) ==
    IF lo > hi THEN P
    ELSE LET e    == AtomEnd(p, lo)
             star == e + 1 <= hi /\ p[e + 1] = "*"
             Q    == IF star THEN EndsStar(p, lo, e, s, P) ELSE EndsAtom(p, lo, e, s, P)
         IN  EndsConcat(p, IF star THEN e + 2 ELSE e + 1, hi, s, Q)

EndsAlt(p, lo, hi, s, P) ==
    LET bar == TopBar(p, lo, hi)
    IN  IF bar = 0 THEN EndsConcat(p, lo, hi, s, P)
        ELSE EndsConcat(p, lo, bar - 1, s, P) \cup EndsAlt(p, bar + 1, hi, s, P)

\* Regexp.MatchString: the expression matches somewhere in s.
MatchString(re, s) == EndsAlt(re, 1, Len(re), s, 0 .. Len(s)) # {}

\* The valid expression p, as a whole, matches the whole of s.
WholeMatch(p, s) == Len(s) \in EndsAlt(p, 1, Len(p), s, {0})

(***************************************************************************)
(* JSON values, as encoding/json decodes them into interface{}.            *)
(***************************************************************************)
\* A number is a float64; the integral value n * 10^e is kept as n and e.
Null     == [k |-> "null", s |-> <<>>, n |-> 0, e |-> 0, b |-> FALSE, m |-> <<>>, l |-> <<>>]
StrV(s)  == [Null EXCEPT !.k = "str", !.s = s]
NumV(n)  == [Null EXCEPT !.k = "num", !.n = n]
NumE(n, e) == [Null EXCEPT !.k = "num", !.n = n, !.e = e]
BoolV(b) == [Null EXCEPT !.k = "bool", !.b = b]
MapV(m)  == [Null EXCEPT !.k = "map", !.m = m]
SeqV(l)  == [Null EXCEPT !.k = "seq", !.l = l]
\* A map[string]interface{} that was never assigned: reads find no key.
NilMap   == [Null EXCEPT !.k = "nilmap"]

Entry(key, val) == [key |-> key, val |-> val]

HasKey(m, key) == \E i \in DOMAIN m : m[i].key = key
Get(m, key)    == m[CHOOSE i \in DOMAIN m : m[i].key = key].val

\* A range over a map visits its entries in an order that changes from one
\* run of the loop to the next.  Visit(v, ord, d) is the value v, at depth d,
\* with the entries of every map in the order they are visited: ord tells,
\* for each depth, whether the maps there are visited backwards.  The maps of
\* the records here have two entries at most, so these are all their orders.
Orders == [1 .. MaxDepth -> BOOLEAN]

Reverse(s) == [i \in DOMAIN s |-> s[Len(s) + 1 - i]]

RECURSIVE Visit(_, _, _)
Visit(v, ord, d) ==
    IF d > MaxDepth THEN v
    ELSE CASE v.k = "map" ->
                [v EXCEPT !.m = [i \in DOMAIN v.m |->
                    [key |-> (IF ord[d] THEN Reverse(v.m) ELSE v.m)[i].key,
                     val |-> Visit((IF ord[d] THEN Reverse(v.m) ELSE v.m)[i].val, ord, d + 1)]]]
           [] v.k = "seq" -> [v EXCEPT !.l = [i \in DOMAIN v.l |-> Visit(v.l[i], ord, d + 1)]]
           [] OTHER       -> v

(***************************************************************************)
(* stringify.                                                              *)
(***************************************************************************)
Digit(d) == <<"0", "1", "2", "3", "4", "5", "6", "7", "8", "9">>[d + 1]

RECURSIVE Digits(_)
Digits(n) == IF n < 10 THEN <<Digit(n)>> ELSE Append(Digits(n \div 10), Digit(n % 10))

DigitValue(c) == CHOOSE d \in 0 .. 9 : Digit(d) = c

\* The decimal digits of the magnitude of the number v.
Magnitude(v) ==
    IF v.n = 0 THEN <<"0">>
    ELSE Digits(IF v.n < 0 THEN -v.n ELSE v.n) \o [i \in 1 .. v.e |-> "0"]

Sign(v) == IF v.n < 0 THEN <<"-">> ELSE <<>>

\* a < b for two numbers written in decimal digits without leading zeros.
DecLess(a, b) ==
    \/ Len(a) < Len(b)
    \/ /\ Len(a) = Len(b)
       /\ \E i \in DOMAIN a :
             /\ DigitValue(a[i]) < DigitValue(b[i])
             /\ \A j \in 1 .. (i - 1) : a[j] = b[j]

\* 2^63
Int64Limit ==
    <<"9", "2", "2", "3", "3", "7", "2", "0", "3", "6",
      "8", "5", "4", "7", "7", "5", "8", "0", "8">>

\* v is in the range of int64, from -2^63 to 2^63 - 1.
InInt64(v) ==
    IF v.n < 0 THEN ~DecLess(Int64Limit, Magnitude(v)) ELSE DecLess(Magnitude(v), Int64Limit)

\* val == float64(int64(val)) for an integral val.  In range the conversion
\* is exact.  Out of range its result depends on the build (the smallest
\* int64 on amd64, the nearest end of the range on arm64), but it is an
\* int64 either way, so going back gives -2^63 or 2^63, which no value
\* n * 10^e outside the range equals.
IsInt64(v) == InInt64(v)

\* fmt's %d of int64(val), for val in range.
FormatInt(v) == Sign(v) \o Magnitude(v)

RECURSIVE StripZeros(_)
StripZeros(ds) ==
    IF Len(ds) > 1 /\ ds[Len(ds)] = "0" THEN StripZeros(SubSeq(ds, 1, Len(ds) - 1)) ELSE ds

\* fmt's %g (and %v) of an integral float64, shortest digits: the exponent
\* form is used from 10^6 on, with an exponent of two digits at least.
FormatG(v) ==
    LET mag == Magnitude(v)
        sig == StripZeros(mag)
        x   == Len(mag) - 1
    IN  IF x < 6 THEN Sign(v) \o mag
        ELSE Sign(v) \o <<sig[1]>>
             \o (IF Len(sig) > 1 THEN <<".">> \o Tail(sig) ELSE <<>>)
             \o <<"e", "+">> \o (IF x < 10 THEN <<"0">> ELSE <<>>) \o Digits(x)

FormatBool(b) == IF b THEN <<"t", "r", "u", "e">> ELSE <<"f", "a", "l", "s", "e">>

\* The entries of a map in the order of their keys.
RECURSIVE SortedByKey(_)
InsertByKey(es, e) ==
    LET n == Cardinality({i \in DOMAIN es : StrLess(es[i].key, e.key)})
    IN  SubSeq(es, 1, n) \o <<e>> \o SubSeq(es, n + 1, Len(es))

SortedByKey(m) == IF m = <<>> THEN <<>> ELSE InsertByKey(SortedByKey(Tail(m)), Head(m))

RECURSIVE JoinSpace(_)
JoinSpace(ss) ==
    IF ss = <<>> THEN <<>>
    ELSE IF Len(ss) = 1 THEN ss[1]
    ELSE ss[1] \o <<" ">> \o JoinSpace(Tail(ss))

\* fmt's %v of a decoded value: an object prints as map[key:value ...] with
\* its keys sorted, an array as [a b ...].
RECURSIVE FormatV(_)
FormatV(v) ==
    CASE v.k = "str"  -> v.s
      [] v.k = "num"  -> FormatG(v)
      [] v.k = "bool" -> FormatBool(v.b)
      [] v.k = "null" -> <<"<", "n", "i", "l", ">">>
      [] v.k = "seq"  -> <<"[">> \o JoinSpace([i \in DOMAIN v.l |-> FormatV(v.l[i])]) \o <<"]">>
      [] OTHER        -> <<"m", "a", "p", "[">>
                         \o JoinSpace([i \in DOMAIN v.m |->
                                          SortedByKey(v.m)[i].key \o <<":">>
                                          \o FormatV(SortedByKey(v.m)[i].val)])
                         \o <<"]">>

stringify(v) ==
    CASE v.k = "str"  -> v.s
      [] v.k = "num"  -> IF IsInt64(v) THEN FormatInt(v) ELSE FormatG(v)
      [] v.k = "bool" -> FormatBool(v.b)
      [] v.k = "null" -> <<>>
      [] OTHER        -> FormatV(v)

(***************************************************************************)
(* PodData.                                                                *)
(***************************************************************************)
NilPod == [nil |-> TRUE, Name |-> <<>>, Parsed |-> NilMap]

PodOf(name, parsed) == [nil |-> FALSE, Name |-> name, Parsed |-> parsed]

NewPodData(name) == IF name = <<>> THEN NilPod ELSE PodOf(name, NilMap)

\* The pod as the loops of one call visit its record.
Visited(p, ord) == [p EXCEPT !.Parsed = Visit(@, ord, 1)]

\* strings.Split(s, sep) for a one-character sep: always at least one part.
RECURSIVE SplitOn(_, _)
SplitOn(s, sep) ==
    IF \A i \in DOMAIN s : s[i] # sep THEN <<s>>
    ELSE LET d == CHOOSE i \in DOMAIN s : s[i] = sep /\ \A j \in 1 .. (i - 1) : s[j] # sep
         IN  <<SubSeq(s, 1, d - 1)>> \o SplitOn(SubSeq(s, d + 1, Len(s)), sep)

Split(path) == SplitOn(path, ".")

\* A slip of ResolvePath: a value that is not a map ends the walk as found.
RECURSIVE WalkStopsAtValue(_, _, _)
WalkStopsAtValue(current, parts, i) ==
    IF i > Len(parts) THEN [val |-> current, ok |-> TRUE]
    ELSE IF current.k \notin {"map", "nilmap"} THEN [val |-> current, ok |-> TRUE]
    ELSE IF ~HasKey(current.m, parts[i]) THEN [val |-> Null, ok |-> FALSE]
    ELSE WalkStopsAtValue(Get(current.m, parts[i]), parts, i + 1)

RECURSIVE Walk(_, _, _)
Walk(current, parts, i) ==
    IF i > Len(parts) THEN [val |-> current, ok |-> TRUE]
    ELSE IF current.k \notin {"map", "nilmap"} THEN [val |-> Null, ok |-> FALSE]
    ELSE IF ~HasKey(current.m, parts[i]) THEN [val |-> Null, ok |-> FALSE]
    ELSE Walk(Get(current.m, parts[i]), parts, i + 1)

ResolvePath(p, path) == Walk(p.Parsed, Split(path), 1)

\* flattenRecurse: the lines it appends to *out, in the order it visits.
RECURSIVE Flat(_)
Flat(seqs) == IF seqs = <<>> THEN <<>> ELSE Head(seqs) \o Flat(Tail(seqs))

RECURSIVE flattenRecurse(_, _)
flattenRecurse(prefix, val) ==
    CASE val.k \in {"map", "nilmap"} ->
            Flat([i \in DOMAIN val.m |->
                    flattenRecurse(IF prefix # <<>> THEN prefix \o <<".">> \o val.m[i].key
                                   ELSE val.m[i].key,
                                   val.m[i].val)])
      [] val.k = "seq" ->
            Flat([i \in DOMAIN val.l |->
                    flattenRecurse(prefix \o <<".">> \o Digits(i - 1), val.l[i])])
      [] OTHER -> <<prefix \o <<" ", "=", " ">> \o stringify(val)>>

\* sort.Strings
RECURSIVE SortStrings(_)
InsertString(ss, x) ==
    LET n == Cardinality({i \in DOMAIN ss : StrLess(ss[i], x)})
    IN  SubSeq(ss, 1, n) \o <<x>> \o SubSeq(ss, n + 1, Len(ss))

SortStrings(ss) == IF ss = <<>> THEN <<>> ELSE InsertString(SortStrings(Tail(ss)), Head(ss))

\* A slip of FlattenPaths: the lines are returned as they were collected.
FlattenPathsUnsorted(p) == flattenRecurse(<<>>, p.Parsed)

FlattenPaths(p) == SortStrings(flattenRecurse(<<>>, p.Parsed))

(***************************************************************************)
(* The configuration.                                                      *)
(***************************************************************************)
\* A *regexp.Regexp field: nil until ValidateConfig stores the compiled pattern.
NilRe       == [set |-> FALSE, re |-> <<>>]
Compiled(p) == [set |-> TRUE, re |-> p]

Cond(path, keyPattern, valuePattern, invert) ==
    [Path |-> path, KeyPattern |-> keyPattern, ValuePattern |-> valuePattern,
     Invert |-> invert, keyRe |-> NilRe, valueRe |-> NilRe]

TemplateVar(path, urlAppend) == [Path |-> path, URLAppend |-> urlAppend]

MenuItem(title, url, conds, tvs) ==
    [Title |-> title, URL |-> url, Conditions |-> conds, TemplateVars |-> tvs]

Config(menuItems) == [MenuItems |-> menuItems]

DefaultPattern == <<".", "*">>

NoErr == [msg |-> "", item |-> -1, elem |-> -1]
Error(msg, i, j) == [msg |-> msg, item |-> i, elem |-> j]

(***************************************************************************)
(* ValidateConfig works on the Config in place and returns at the first    *)
(* error: each operator below gives the value as the call leaves it and    *)
(* the error (indices count from 0, as in the messages).                   *)
(***************************************************************************)
\* A slip of the loop body: the default sources are compiled but not stored.
ValidateCondDefaultsNotStored(c, i, j) ==
    IF c.Path = <<>> THEN [v |-> c, err |-> Error("empty path", i, j)]
    ELSE LET k  == IF c.KeyPattern = <<>> THEN DefaultPattern ELSE c.KeyPattern
             v  == IF c.ValuePattern = <<>> THEN DefaultPattern ELSE c.ValuePattern
             c2 == [c EXCEPT !.keyRe = Compiled(anchorPattern(k))]
             c3 == [c2 EXCEPT !.valueRe = Compiled(anchorPattern(v))]
         IN  IF ~CompileOK(anchorPattern(k))
             THEN [v |-> c, err |-> Error("invalid keyPattern", i, j)]
             ELSE IF ~CompileOK(anchorPattern(v))
             THEN [v |-> c2, err |-> Error("invalid valuePattern", i, j)]
             ELSE [v |-> c3, err |-> NoErr]

ValidateCond(c, i, j) ==
    IF c.Path = <<>> THEN [v |-> c, err |-> Error("empty path", i, j)]
    ELSE LET c1 == [c EXCEPT
                      !.KeyPattern   = IF @ = <<>> THEN DefaultPattern ELSE @,
                      !.ValuePattern = IF @ = <<>> THEN DefaultPattern ELSE @]
             c2 == [c1 EXCEPT !.keyRe = Compiled(anchorPattern(c1.KeyPattern))]
             c3 == [c2 EXCEPT !.valueRe = Compiled(anchorPattern(c1.ValuePattern))]
         IN  IF ~CompileOK(anchorPattern(c1.KeyPattern))
             THEN [v |-> c1, err |-> Error("invalid keyPattern", i, j)]
             ELSE IF ~CompileOK(anchorPattern(c1.ValuePattern))
             THEN [v |-> c2, err |-> Error("invalid valuePattern", i, j)]
             ELSE [v |-> c3, err |-> NoErr]

\* The conditions loop: r is what its body made of conds[j].
RECURSIVE ValidateConds(_, _, _)
CondsStep(conds, i, j, r) ==
    IF r.err # NoErr THEN [v |-> [conds EXCEPT ![j] = r.v], err |-> r.err]
    ELSE ValidateConds([conds EXCEPT ![j] = r.v], i, j + 1)

ValidateConds(conds, i, j) ==
    IF j > Len(conds) THEN [v |-> conds, err |-> NoErr]
    ELSE CondsStep(conds, i, j, ValidateCond(conds[j], i, j - 1))

\* A slip of the templateVars loop: urlAppend is not looked at.
RECURSIVE ValidateTemplateVarsPathOnly(_, _, _)
ValidateTemplateVarsPathOnly(tvs, i, j) ==
    IF j > Len(tvs) THEN NoErr
    ELSE IF tvs[j].Path = <<>> THEN Error("templateVars empty path", i, j - 1)
    ELSE ValidateTemplateVarsPathOnly(tvs, i, j + 1)

RECURSIVE ValidateTemplateVars(_, _, _)
ValidateTemplateVars(tvs, i, j) ==
    IF j > Len(tvs) THEN NoErr
    ELSE IF tvs[j].Path = <<>> THEN Error("templateVars empty path", i, j - 1)
    ELSE IF tvs[j].URLAppend = <<>> THEN Error("templateVars empty urlAppend", i, j - 1)
    ELSE ValidateTemplateVars(tvs, i, j + 1)

\* The body of the menuItems loop: r is what the conditions loop left.
ItemStep(item, i, r) ==
    [v   |-> [item EXCEPT !.Conditions = r.v],
     err |-> IF r.err # NoErr THEN r.err
             ELSE ValidateTemplateVars(item.TemplateVars, i, 1)]

\* A slip of the loop body: the template variables are checked before the
\* conditions.
ValidateItemVarsFirst(item, i) ==
    IF item.Title = <<>> THEN [v |-> item, err |-> Error("empty title", i, -1)]
    ELSE IF item.URL = <<>> THEN [v |-> item, err |-> Error("empty url", i, -1)]
    ELSE IF ValidateTemplateVars(item.TemplateVars, i, 1) # NoErr
    THEN [v |-> item, err |-> ValidateTemplateVars(item.TemplateVars, i, 1)]
    ELSE ItemStep(item, i, ValidateConds(item.Conditions, i, 1))

ValidateItem(item, i) ==
    IF item.Title = <<>> THEN [v |-> item, err |-> Error("empty title", i, -1)]
    ELSE IF item.URL = <<>> THEN [v |-> item, err |-> Error("empty url", i, -1)]
    ELSE ItemStep(item, i, ValidateConds(item.Conditions, i, 1))

\* The menuItems loop: r is what its body made of its[i].
RECURSIVE ValidateItems(_, _)
ItemsStep(its, i, r) ==
    IF r.err # NoErr THEN [v |-> [its EXCEPT ![i] = r.v], err |-> r.err]
    ELSE ValidateItems([its EXCEPT ![i] = r.v], i + 1)

ValidateItems(its, i) ==
    IF i > Len(its) THEN [v |-> its, err |-> NoErr]
    ELSE ItemsStep(its, i, ValidateItem(its[i], i - 1))

ValidateConfig(c) ==
    IF Len(c.MenuItems) = 0 THEN [v |-> c, err |-> Error("no menu items", -1, -1)]
    ELSE [ValidateItems(c.MenuItems, 1) EXCEPT !.v = Config(@)]

\* LoadConfig: the file is read and decoded (file.ok, into file.doc), then
\* validated; Config{} comes with every error.
\* A template variable as the configuration file writes it; placeholder is
\* empty when the file omits it.
RawVar(path, placeholder, urlAppend) ==
    [Path |-> path, Placeholder |-> placeholder, URLAppend |-> urlAppend]

\* json.Unmarshal(data, &cfg): the fields of the structs are filled in; a
\* key of the document without a field (placeholder) is dropped.
UnmarshalItem(it) ==
    [it EXCEPT !.TemplateVars =
        [j \in DOMAIN @ |-> TemplateVar(@[j].Path, @[j].URLAppend)]]

Unmarshal(doc) == Config([i \in DOMAIN doc.MenuItems |-> UnmarshalItem(doc.MenuItems[i])])

Validated(r) == IF r.err # NoErr THEN [v |-> Config(<<>>), err |-> r.err] ELSE r

LoadConfig(file) ==
    IF ~file.ok THEN [v |-> Config(<<>>), err |-> Error("read config", -1, -1)]
    ELSE Validated(ValidateConfig(Unmarshal(file.doc)))

(***************************************************************************)
(* Condition.Evaluate.                                                     *)
(***************************************************************************)
\* (*Regexp).MatchString of a compiled pattern.
MatchRe(r, s) == MatchString(r.re, s)

\* The loop of matchMap from the i-th entry visited: it returns at the first
\* entry whose key and value both match.
RECURSIVE matchMapFrom(_, _, _)
matchMapFrom(c, m, i) ==
    IF i > Len(m) THEN FALSE
    ELSE IF MatchRe(c.keyRe, m[i].key) /\ MatchRe(c.valueRe, stringify(m[i].val)) THEN TRUE
    ELSE matchMapFrom(c, m, i + 1)

\* A slip of matchMap: the key and the value may come from different entries.
matchMapAnyTwo(c, m) ==
    /\ \E i \in DOMAIN m : MatchRe(c.keyRe, m[i].key)
    /\ \E i \in DOMAIN m : MatchRe(c.valueRe, stringify(m[i].val))

matchMap(c, m) == matchMapFrom(c, m, 1)

\* A slip of matchArray: every element must match.
matchArrayAll(c, arr) ==
    \A i \in DOMAIN arr : MatchRe(c.valueRe, stringify(arr[i]))

matchArray(c, arr) ==
    \E i \in DOMAIN arr : MatchRe(c.valueRe, stringify(arr[i]))

\* A slip of Evaluate's dispatch: a missing value is matched as the empty text.
MatchedMissingAsEmpty(c, p) ==
    LET r == ResolvePath(p, c.Path)
    IN  IF ~r.ok \/ r.val.k = "null" THEN MatchRe(c.valueRe, stringify(Null))
        ELSE CASE r.val.k = "map" -> matchMap(c, r.val.m)
               [] r.val.k = "seq" -> matchArray(c, r.val.l)
               [] OTHER           -> MatchRe(c.valueRe, stringify(r.val))

\* A slip of Evaluate's dispatch: a scalar also needs the key pattern to
\* accept the last segment of the path.
MatchedScalarNeedsKey(c, p) ==
    LET r == ResolvePath(p, c.Path)
        parts == Split(c.Path)
    IN  IF ~r.ok \/ r.val.k = "null" THEN FALSE
        ELSE CASE r.val.k = "map" -> matchMap(c, r.val.m)
               [] r.val.k = "seq" -> matchArray(c, r.val.l)
               [] OTHER           -> /\ MatchRe(c.keyRe, parts[Len(parts)])
                                     /\ MatchRe(c.valueRe, stringify(r.val))

\* A slip of Evaluate's dispatch: a null that was found is matched as a scalar.
MatchedNullAsScalar(c, p) ==
    LET r == ResolvePath(p, c.Path)
    IN  IF ~r.ok THEN FALSE
        ELSE CASE r.val.k = "map" -> matchMap(c, r.val.m)
               [] r.val.k = "seq" -> matchArray(c, r.val.l)
               [] OTHER           -> MatchRe(c.valueRe, stringify(r.val))

Matched(c, p) ==
    LET r == ResolvePath(p, c.Path)
    IN  IF ~r.ok \/ r.val.k = "null" THEN FALSE
        ELSE CASE r.val.k = "map" -> matchMap(c, r.val.m)
               [] r.val.k = "seq" -> matchArray(c, r.val.l)
               [] OTHER           -> MatchRe(c.valueRe, stringify(r.val))

\* A slip of Evaluate: a path that does not resolve fails before the invert
\* flag is looked at.
EvaluateMissingFails(c, p) ==
    IF ~ResolvePath(p, c.Path).ok THEN FALSE
    ELSE IF c.Invert THEN ~Matched(c, p) ELSE Matched(c, p)

Evaluate(c, p) == IF c.Invert THEN ~Matched(c, p) ELSE Matched(c, p)

\* Evaluate calls pd.ResolvePath, which reads pd.Parsed: with a nil pd the
\* call panics (nil pointer dereference).  MatchesPod calls Evaluate on its
\* first condition, if it has one.
ResolvePathPanics(p) == p.nil
EvaluatePanics(c, p) == ResolvePathPanics(p)
MatchesPodPanics(item, p) == Len(item.Conditions) > 0 /\ EvaluatePanics(item.Conditions[1], p)

\* A slip of MatchesPod's loop: one passing condition is enough.
RECURSIVE MatchesFromAny(_, _, _)
MatchesFromAny(conds, i, p) ==
    IF i > Len(conds) THEN i = 1
    ELSE IF Evaluate(conds[i], p) THEN TRUE
    ELSE MatchesFromAny(conds, i + 1, p)

\* MenuItem.MatchesPod: false at the first condition that fails.
RECURSIVE MatchesFrom(_, _, _)
MatchesFrom(conds, i, p) ==
    IF i > Len(conds) THEN TRUE
    ELSE IF ~Evaluate(conds[i], p) THEN FALSE
    ELSE MatchesFrom(conds, i + 1, p)

\* A slip of MatchesPod: the loop returns the first condition's result.
MatchesPodFirstOnly(item, p) ==
    IF Len(item.Conditions) = 0 THEN TRUE ELSE Evaluate(item.Conditions[1], p)

MatchesPod(item, p) == MatchesFrom(item.Conditions, 1, p)

(***************************************************************************)
(* MenuItem.ResolveURL.                                                    *)
(***************************************************************************)
Placeholder == <<"$", "V", "A", "L", "U", "E">>

IsAt(s, i, old) == i + Len(old) - 1 <= Len(s) /\ SubSeq(s, i, i + Len(old) - 1) = old

\* strings.ReplaceAll(s, old, new), old not empty.
RECURSIVE ReplaceFrom(_, _, _, _)
ReplaceFrom(s, i, old, new) ==
    IF i > Len(s) THEN <<>>
    ELSE IF IsAt(s, i, old) THEN new \o ReplaceFrom(s, i + Len(old), old, new)
    ELSE <<s[i]>> \o ReplaceFrom(s, i + 1, old, new)

ReplaceAll(s, old, new) == ReplaceFrom(s, 1, old, new)

\* TemplateVar.resolve
resolve(tv, p) ==
    IF p.nil THEN <<>>
    ELSE LET r == ResolvePath(p, tv.Path)
         IN  IF ~r.ok THEN <<>> ELSE stringify(r.val)

RECURSIVE ResolveFrom(_, _, _, _)
ResolveFrom(url, tvs, i, p) ==
    IF i > Len(tvs) THEN url
    ELSE LET val == resolve(tvs[i], p)
         IN  IF val = <<>> THEN ResolveFrom(url, tvs, i + 1, p)
             ELSE ResolveFrom(url \o ReplaceAll(tvs[i].URLAppend, Placeholder, val),
                              tvs, i + 1, p)

ResolveURL(item, p) == ResolveFrom(item.URL, item.TemplateVars, 1, p)

(***************************************************************************)
(* FilterMenuItems.                                                        *)
(***************************************************************************)
RECURSIVE FilterFrom(_, _, _)
FilterFrom(its, i, p) ==
    IF i > Len(its) THEN <<>>
    ELSE LET keep == IF p.nil THEN Len(its[i].Conditions) = 0
                     ELSE MatchesPod(its[i], p)
         IN  (IF keep THEN <<its[i]>> ELSE <<>>) \o FilterFrom(its, i + 1, p)

\* A slip of FilterMenuItems: without a pod every entry is kept.
FilterKeepsAllWithoutPod(its, p) ==
    IF p.nil THEN its ELSE FilterFrom(its, 1, p)

FilterMenuItems(its, p) == FilterFrom(its, 1, p)

(***************************************************************************)
(* FetchPodJSON: kubectl fails, or prints a document that is decoded into  *)
(* Parsed.  out is [ok, doc].                                              *)
(***************************************************************************)
FetchPodJSON(p, out) ==
    IF ~out.ok THEN [v |-> p, failed |-> TRUE]
    ELSE [v |-> [p EXCEPT !.Parsed = out.doc], failed |-> FALSE]

(***************************************************************************)
(* main: the menu lines and the selection.                                 *)
(***************************************************************************)
Tab == "\t"

DebugMarker ==
    <<"_", "_", "D", "E", "B", "U", "G", "_", "P", "O", "D", "_", "S", "P", "E", "C", "_", "_">>

\* The line of the DEBUG entry (its title and description are shortened).
DebugLine == <<"[", "D", "]">> \o <<Tab>> \o <<"a", "l", "l">> \o <<Tab>> \o DebugMarker

\* The line of one entry: title, description (prefixed with the pod), URL.
LineOf(it, p) ==
    it.Title \o <<Tab>>
    \o (IF p.nil THEN <<>> ELSE <<"[">> \o p.Name \o <<"]", " ">>)
    \o <<Tab>> \o ResolveURL(it, p)

MenuLines(its, p, debug) ==
    (IF debug /\ ~p.nil /\ p.Parsed.k # "nilmap" THEN <<DebugLine>> ELSE <<>>)
    \o [i \in DOMAIN its |-> LineOf(its[i], p)]

IsSpace(c) == c \in {" ", Tab, "\n", "\r"}

RECURSIVE TrimLeft(_)
TrimLeft(s) == IF s # <<>> /\ IsSpace(Head(s)) THEN TrimLeft(Tail(s)) ELSE s

RECURSIVE TrimRight(_)
TrimRight(s) ==
    IF s # <<>> /\ IsSpace(s[Len(s)]) THEN TrimRight(SubSeq(s, 1, Len(s) - 1)) ELSE s

TrimSpace(s) == TrimRight(TrimLeft(s))

\* The URL main takes from the selection: the last tab-separated part.
SelectedURL(sel) ==
    LET parts == SplitOn(sel, Tab)
    IN  TrimSpace(parts[Len(parts)])

(***************************************************************************)
(* Inputs.                                                                 *)
(***************************************************************************)
K == <<"k">>
M == <<"m">>
KdotM == <<"k", ".", "m">>

\* What a call returned: the function, the index it was given, the value, and
\* whether the call ended in a run-time panic instead of returning.
NoRet == [fn |-> "", arg |-> 0, val |-> FALSE, panic |-> FALSE]

\* No pod given, no --debug, no configuration file to read.
NoFile == [ok |-> FALSE, doc |-> Config(<<>>)]
NoEnv  == [pod |-> <<>>, debug |-> FALSE, file |-> NoFile]
Ret(fn, arg, val) == [fn |-> fn, arg |-> arg, val |-> val, panic |-> FALSE]
Panic(fn, arg) == [fn |-> fn, arg |-> arg, val |-> FALSE, panic |-> TRUE]

Title == <<"T">>
BaseURL == <<"h", ":", "/">>

\* Scalars and null; one string is a line break.
Leaves == {Null, StrV(K), StrV(M), StrV(<<"\n">>), NumV(7), BoolV(TRUE)}

\* Objects over the keys k and m, in key order.
MapsOf(V) ==
    {MapV(<<>>)}
    \cup {MapV(<<Entry(key, a)>>) : key \in {K, M}, a \in V}
    \cup {MapV(<<Entry(K, a), Entry(M, b)>>) : a \in V, b \in V}

SeqsOf(V, n) == {SeqV(l) : l \in StringsUpTo(V, n)}

\* What a field of the pod can hold: a scalar, null, an object, an array,
\* and an array of objects and an object of arrays.
Fields ==
    Leaves \cup MapsOf(Leaves) \cup SeqsOf(Leaves, MaxSeqLen)
    \cup {SeqV(<<MapV(<<Entry(K, StrV(K))>>)>>),
          MapV(<<Entry(K, SeqV(<<StrV(K)>>))>>)}

\* Documents with the field at k or at k.m, or without it.
EvalDocs ==
    {MapV(<<>>)}
    \cup {MapV(<<Entry(K, f)>>) : f \in Fields}
    \cup {MapV(<<Entry(K, MapV(<<Entry(M, f)>>))>>) : f \in Fields}

\* A pod with a document, and one whose document was never parsed.
EvalPods == {PodOf(<<"p">>, d) : d \in EvalDocs \cup {NilMap}}

EvalPaths == {K, KdotM}

\* Pattern sources: omitted, two literals, any one character, an alternation,
\* and one that does not compile.
EvalPatterns == {<<>>, K, M, <<".">>, <<"k", "|", "m">>, <<"(">>}

EvalConds ==
    {Cond(path, kp, vp, inv) :
        path \in EvalPaths, kp \in EvalPatterns, vp \in EvalPatterns, inv \in BOOLEAN}

\* Conditions of several kinds for entries with more than one condition.
CondPool ==
    {Cond(K, K, K, FALSE), Cond(KdotM, <<>>, K, FALSE),
     Cond(K, <<>>, <<"k", "|", "m">>, TRUE), Cond(KdotM, <<>>, <<>>, TRUE)}

CondLists == {l \in StringsUpTo(CondPool, MaxConds) : Len(l) # 1}

OneItem(conds) == Config(<<MenuItem(Title, BaseURL, conds, <<>>)>>)

EvalConfigs == {OneItem(<<c>>) : c \in EvalConds} \cup {OneItem(l) : l \in CondLists}

(***************************************************************************)
(* Patterns: a source is validated (defaulted, anchored, compiled) as the  *)
(* key and the value pattern of a condition, and the compiled patterns are *)
(* offered a candidate string.                                             *)
(***************************************************************************)
InitRegex ==
    /\ pc = "raw"
    /\ src \in StringsUpTo(PatChars, MaxPatLen)
    /\ cand \in StringsUpTo(Letters, MaxStrLen)
    /\ cfg = OneItem(<<Cond(K, src, src, FALSE)>>)
    /\ err = NoErr
    /\ pd = NilPod
    /\ ret = NoRet
    /\ env = NoEnv
    /\ podErr = FALSE
    /\ items = <<>>
    /\ lines = <<>>
    /\ selected = <<>>
    /\ opened = <<>>

\* ValidateConfig(&cfg)
Validate ==
    /\ pc = "raw"
    /\ \E r \in {ValidateConfig(cfg)} :
           /\ cfg' = r.v
           /\ err' = r.err
           /\ pc' = IF r.err # NoErr THEN "rejected" ELSE "validated"
    /\ UNCHANGED <<src, cand, pd, ret, env, podErr, items, lines, selected, opened>>

TheConds == cfg.MenuItems[1].Conditions

\* c.keyRe.MatchString(cand)
MatchKey ==
    /\ pc = "validated"
    /\ ret' = Ret("keyRe", 1, MatchRe(TheConds[1].keyRe, cand))
    /\ pc' = "returned"
    /\ UNCHANGED <<src, cand, cfg, err, pd, env, podErr, items, lines, selected, opened>>

\* c.valueRe.MatchString(cand)
MatchValue ==
    /\ pc = "validated"
    /\ ret' = Ret("valueRe", 1, MatchRe(TheConds[1].valueRe, cand))
    /\ pc' = "returned"
    /\ UNCHANGED <<src, cand, cfg, err, pd, env, podErr, items, lines, selected, opened>>

\* anchorPattern(src)
Anchor ==
    /\ pc = "raw"
    /\ ret' = Ret("anchorPattern", 0, anchorPattern(src))
    /\ pc' = "returned"
    /\ UNCHANGED <<src, cand, cfg, err, pd, env, podErr, items, lines, selected, opened>>

NextRegex == Validate \/ MatchKey \/ MatchValue \/ Anchor

SpecRegex == InitRegex /\ [][NextRegex]_vars

(***************************************************************************)
(* Conditions: a configuration of one entry is validated and its           *)
(* conditions and the entry are evaluated against a pod.                   *)
(***************************************************************************)
Init ==
    /\ pc = "raw"
    /\ src = <<>>
    /\ cand = <<>>
    /\ cfg \in EvalConfigs
    /\ err = NoErr
    /\ pd \in EvalPods
    /\ ret = NoRet
    /\ env = NoEnv
    /\ podErr = FALSE
    /\ items = <<>>
    /\ lines = <<>>
    /\ selected = <<>>
    /\ opened = <<>>

\* cfg.MenuItems[0].Filters.Conditions[j].Evaluate(pd)
CallEvaluate ==
    /\ pc = "validated"
    /\ \E j \in DOMAIN TheConds, ord \in Orders :
          ret' = IF EvaluatePanics(TheConds[j], pd) THEN Panic("Evaluate", j)
                 ELSE Ret("Evaluate", j, Evaluate(TheConds[j], Visited(pd, ord)))
    /\ pc' = "returned"
    /\ UNCHANGED <<src, cand, cfg, err, pd, env, podErr, items, lines, selected, opened>>

\* cfg.MenuItems[0].MatchesPod(pd)
CallMatchesPod ==
    /\ pc = "validated"
    /\ \E ord \in Orders :
          ret' = IF MatchesPodPanics(cfg.MenuItems[1], pd) THEN Panic("MatchesPod", 0)
                 ELSE Ret("MatchesPod", 0, MatchesPod(cfg.MenuItems[1], Visited(pd, ord)))
    /\ pc' = "returned"
    /\ UNCHANGED <<src, cand, cfg, err, pd, env, podErr, items, lines, selected, opened>>

Next == Validate \/ CallEvaluate \/ CallMatchesPod

Spec == Init /\ [][Next]_vars

(***************************************************************************)
(* main: the configuration is loaded, the pod fetched, the entries         *)
(* filtered, the menu built and handed to the chooser, and the selection   *)
(* opened.                                                                 *)
(***************************************************************************)
URLAppend == <<"?", "n", "=">> \o Placeholder

\* Entries of the configuration file: without conditions (with and without a
\* template variable), with one condition, with an inverted condition, with
\* two conditions, one whose pattern does not compile, and one whose template
\* variable names its placeholder.
ItemA == MenuItem(<<"A">>, BaseURL, <<>>, <<>>)
ItemB == MenuItem(<<"B">>, BaseURL, <<Cond(K, K, <<>>, FALSE)>>, <<RawVar(KdotM, <<>>, URLAppend)>>)
ItemC == MenuItem(<<"C">>, BaseURL, <<Cond(K, M, <<>>, TRUE)>>, <<>>)
ItemD == MenuItem(<<"D">>, BaseURL, <<Cond(K, K, <<>>, FALSE), Cond(KdotM, <<>>, K, FALSE)>>, <<>>)
ItemE == MenuItem(<<"E">>, BaseURL, <<>>, <<RawVar(KdotM, <<>>, URLAppend)>>)
ItemF == MenuItem(<<"F">>, BaseURL, <<>>, <<RawVar(KdotM, <<"$", "N">>, <<"&", "$", "N">>)>>)
ItemX == MenuItem(<<"X">>, BaseURL, <<Cond(K, <<"(">>, <<>>, FALSE)>>, <<>>)

MainItems == {ItemA, ItemB, ItemC, ItemD, ItemE, ItemF, ItemX}

MainConfigs == {Config(l) : l \in StringsUpTo(MainItems, MaxItems)}

\* What kubectl prints for the pod.
MainDocs ==
    {MapV(<<>>),
     MapV(<<Entry(K, StrV(K))>>),
     MapV(<<Entry(K, MapV(<<Entry(K, StrV(K)), Entry(M, StrV(M))>>))>>),
     MapV(<<Entry(K, MapV(<<Entry(M, StrV(K))>>))>>)}

Kubectl == {[ok |-> FALSE, doc |-> NilMap]} \cup {[ok |-> TRUE, doc |-> d] : d \in MainDocs}

InitMain ==
    /\ pc = "start"
    /\ src = <<>>
    /\ cand = <<>>
    /\ cfg = Config(<<>>)
    /\ err = NoErr
    /\ pd = NilPod
    /\ ret = NoRet
    /\ env \in [pod : {<<>>, <<"p">>}, debug : BOOLEAN,
                file : {NoFile} \cup {[ok |-> TRUE, doc |-> c] : c \in MainConfigs}]
    /\ podErr = FALSE
    /\ items = <<>>
    /\ lines = <<>>
    /\ selected = <<>>
    /\ opened = <<>>

\* A slip of main: the error of LoadConfig is reported and main goes on.
LoadIgnoresError ==
    /\ pc = "start"
    /\ \E r \in {LoadConfig(env.file)} :
           /\ cfg' = r.v
           /\ err' = r.err
           /\ pc' = "loaded"
    /\ UNCHANGED <<src, cand, pd, ret, env, podErr, items, lines, selected, opened>>

\* cfg, err := LoadConfig(configPath); on an error main exits.
Load ==
    /\ pc = "start"
    /\ \E r \in {LoadConfig(env.file)} :
           /\ cfg' = r.v
           /\ err' = r.err
           /\ pc' = IF r.err # NoErr THEN "exit" ELSE "loaded"
    /\ UNCHANGED <<src, cand, pd, ret, env, podErr, items, lines, selected, opened>>

\* pd := NewPodData(*pod, *namespace)
MakePod ==
    /\ pc = "loaded"
    /\ pd' = NewPodData(env.pod)
    /\ pc' = IF env.pod = <<>> THEN "fetched" ELSE "pod"
    /\ UNCHANGED <<src, cand, cfg, err, ret, env, podErr, items, lines, selected, opened>>

\* if pd != nil { pd.FetchPodJSON() }
Fetch ==
    /\ pc = "pod"
    /\ \E out \in Kubectl :
          LET r == FetchPodJSON(pd, out)
          IN  pd' = r.v /\ podErr' = r.failed
    /\ pc' = "fetched"
    /\ UNCHANGED <<src, cand, cfg, err, ret, env, items, lines, selected, opened>>

\* items := FilterMenuItems(cfg.MenuItems, pd)
Filter ==
    /\ pc = "fetched"
    /\ \E ord \in Orders : items' = FilterMenuItems(cfg.MenuItems, Visited(pd, ord))
    /\ pc' = "filtered"
    /\ UNCHANGED <<src, cand, cfg, err, pd, ret, env, podErr, lines, selected, opened>>

\* The chooser's input: one line for each entry, with its resolved URL.
BuildMenu ==
    /\ pc = "filtered"
    /\ \E ord \in Orders : lines' = MenuLines(items, Visited(pd, ord), env.debug)
    /\ pc' = "menu"
    /\ UNCHANGED <<src, cand, cfg, err, pd, ret, env, podErr, items, selected, opened>>

\* The chooser prints one of the lines, or nothing (cancelled or failed).
Choose ==
    /\ pc = "menu"
    /\ \E out \in {<<>>} \cup {lines[i] : i \in DOMAIN lines} : selected' = TrimSpace(out)
    /\ pc' = "chosen"
    /\ UNCHANGED <<src, cand, cfg, err, pd, ret, env, podErr, items, lines, opened>>

\* The URL of the selection: for the DEBUG marker the listing of FlattenPaths
\* is exported, any other URL is opened.
Open ==
    /\ pc = "chosen"
    /\ \E url \in {SelectedURL(selected)}, ord \in Orders :
          opened' = Append(opened,
                           [export |-> url = DebugMarker, url |-> url,
                            paths  |-> IF url = DebugMarker
                                       THEN FlattenPaths(Visited(pd, ord)) ELSE <<>>])
    /\ pc' = "done"
    /\ UNCHANGED <<src, cand, cfg, err, pd, ret, env, podErr, items, lines, selected>>

NextMain == Load \/ MakePod \/ Fetch \/ Filter \/ BuildMenu \/ Choose \/ Open

SpecMain == InitMain /\ [][NextMain]_vars

(***************************************************************************)
(* Calls: a configuration written in the program (as the tests do) is      *)
(* validated, and Evaluate, MatchesPod, ResolveURL and ResolvePath are     *)
(* called with a pod, a pod whose document was never parsed, or no pod.    *)
(* env.file keeps the configuration as it was written.  After a call that  *)
(* returned, the calls go on with another record and the same              *)
(* configuration.                                                          *)
(***************************************************************************)
URLTwice == Placeholder \o <<"&">> \o Placeholder
URLPlain == <<"&", "x">>

\* Template variables: three that validate, one without a path and one
\* without a urlAppend.
VarPool ==
    {TemplateVar(KdotM, URLAppend), TemplateVar(K, URLTwice), TemplateVar(M, URLPlain),
     TemplateVar(<<>>, URLAppend), TemplateVar(K, <<>>)}

VarLists == StringsUpTo(VarPool, MaxVars)

\* Conditions: two that validate, one without a path, one whose key pattern
\* and one whose value pattern does not compile.
CallCondPool ==
    {Cond(K, K, <<>>, FALSE), Cond(KdotM, <<>>, <<".">>, TRUE), Cond(<<>>, K, K, FALSE),
     Cond(K, <<"(">>, <<>>, FALSE), Cond(K, <<>>, <<"(">>, FALSE)}

CallCondLists == StringsUpTo(CallCondPool, MaxConds)

CallItems ==
    {MenuItem(title, url, <<>>, <<>>) : title \in {<<>>, Title}, url \in {<<>>, BaseURL}}
    \cup {MenuItem(Title, BaseURL, l, <<>>) : l \in CallCondLists}
    \cup {MenuItem(Title, BaseURL, <<>>, l) : l \in VarLists}

\* Entries for configurations of two entries.
PairItems ==
    {MenuItem(Title, BaseURL, <<Cond(K, <<>>, K, FALSE)>>, <<TemplateVar(K, URLAppend)>>),
     MenuItem(<<>>, BaseURL, <<>>, <<>>),
     MenuItem(Title, BaseURL, <<Cond(K, <<"(">>, <<>>, FALSE)>>, <<>>),
     MenuItem(Title, BaseURL, <<>>, <<TemplateVar(K, <<>>)>>),
     MenuItem(Title, BaseURL, <<Cond(K, <<>>, <<"(">>, FALSE)>>, <<TemplateVar(<<>>, <<>>)>>),
     MenuItem(Title, <<>>, <<Cond(<<>>, <<"(">>, <<"(">>, FALSE)>>, <<>>)}

CallConfigs ==
    {Config(<<>>)}
    \cup {Config(<<it>>) : it \in CallItems}
    \cup {Config(<<a, b>>) : a \in PairItems, b \in PairItems}

\* true, and integral numbers: zero, a negative one, 9 * 10^18 (below 2^63),
\* 10^19 and -12 * 10^18 (beyond the range of int64).
BoolsAndNumbers ==
    {BoolV(TRUE), NumV(0), NumV(-3), NumE(9, 18), NumE(1, 19), NumE(-12, 18)}

\* What the field k holds: null, the empty string, scalars, an array, and
\* objects with the key m.
CallFields ==
    {Null, StrV(<<>>), StrV(K), NumV(7), BoolV(FALSE), SeqV(<<StrV(K)>>)}
    \cup BoolsAndNumbers
    \cup {MapV(<<Entry(M, x)>>) :
             x \in {Null, StrV(<<>>), StrV(M), NumV(7), MapV(<<Entry(K, StrV(K))>>)}}

\* A record may have the empty string as a key, at the root or below it.
EmptyKeyDocs ==
    {MapV(<<Entry(<<>>, StrV(K))>>),
     MapV(<<Entry(<<>>, MapV(<<Entry(K, StrV(M))>>)),
            Entry(K, MapV(<<Entry(<<>>, NumV(7))>>))>>)}

\* Records with two entries in a map, with an array of two elements under a
\* map, and with a key that ends in a tab.
WideDocs ==
    {MapV(<<Entry(K, MapV(<<Entry(K, Null), Entry(M, NumV(7))>>)), Entry(M, StrV(M))>>),
     MapV(<<Entry(K, MapV(<<Entry(M, SeqV(<<StrV(K), BoolV(TRUE)>>))>>)), Entry(M, StrV(K))>>),
     MapV(<<Entry(K, StrV(M)), Entry(<<"k", Tab>>, NumV(7))>>)}

CallDocs ==
    {MapV(<<>>)} \cup {MapV(<<Entry(K, f)>>) : f \in CallFields} \cup EmptyKeyDocs \cup WideDocs

CallPods == {NilPod} \cup {PodOf(<<"p">>, d) : d \in CallDocs \cup {NilMap}}

\* Paths are written from their segments; a segment may be empty, and the
\* single empty segment writes the empty path.
RECURSIVE JoinDot(_)
JoinDot(segs) ==
    IF Len(segs) = 1 THEN segs[1] ELSE segs[1] \o <<".">> \o JoinDot(Tail(segs))

PathSegs == StringsUpTo({K, M, <<>>}, MaxDepth) \ {<<>>}

InitCalls ==
    /\ pc = "raw"
    /\ src = <<>>
    /\ cand = <<>>
    /\ cfg \in CallConfigs
    /\ err = NoErr
    /\ pd \in CallPods
    /\ ret = NoRet
    /\ env = [NoEnv EXCEPT !.file = [ok |-> TRUE, doc |-> cfg]]
    /\ podErr = FALSE
    /\ items = <<>>
    /\ lines = <<>>
    /\ selected = <<>>
    /\ opened = <<>>

\* A slip of ResolveURL: the fragments are appended to the entry's own url.
CallResolveURLInPlace ==
    /\ pc = "validated"
    /\ \E ord \in Orders :
          \E url \in {ResolveURL(cfg.MenuItems[1], Visited(pd, ord))} :
             /\ ret' = Ret("ResolveURL", 0, url)
             /\ cfg' = [cfg EXCEPT !.MenuItems[1].URL = url]
    /\ pc' = "returned"
    /\ UNCHANGED <<src, cand, err, pd, env, podErr, items, lines, selected, opened>>

\* cfg.MenuItems[0].ResolveURL(pd)
CallResolveURL ==
    /\ pc = "validated"
    /\ \E ord \in Orders :
          ret' = Ret("ResolveURL", 0, ResolveURL(cfg.MenuItems[1], Visited(pd, ord)))
    /\ pc' = "returned"
    /\ UNCHANGED <<src, cand, cfg, err, pd, env, podErr, items, lines, selected, opened>>

\* pd.ResolvePath(path), the path written from segs
CallResolvePath ==
    /\ pc = "validated"
    /\ \E segs \in PathSegs :
          ret' = IF ResolvePathPanics(pd) THEN Panic("ResolvePath", segs)
                 ELSE Ret("ResolvePath", segs, ResolvePath(pd, JoinDot(segs)))
    /\ pc' = "returned"
    /\ UNCHANGED <<src, cand, cfg, err, pd, env, podErr, items, lines, selected, opened>>

\* stringify(v) for the value v of the field k
CallStringify ==
    /\ pc = "validated"
    /\ ~pd.nil /\ HasKey(pd.Parsed.m, K)
    /\ ret' = Ret("stringify", 0, stringify(Get(pd.Parsed.m, K)))
    /\ pc' = "returned"
    /\ UNCHANGED <<src, cand, cfg, err, pd, env, podErr, items, lines, selected, opened>>

\* FilterMenuItems(cfg.MenuItems, pd)
CallFilterMenuItems ==
    /\ pc = "validated"
    /\ \E ord \in Orders :
          ret' = Ret("FilterMenuItems", 0, FilterMenuItems(cfg.MenuItems, Visited(pd, ord)))
    /\ pc' = "returned"
    /\ UNCHANGED <<src, cand, cfg, err, pd, env, podErr, items, lines, selected, opened>>

\* pd.FlattenPaths(); it reads pd.Parsed, and panics on a nil pd
CallFlattenPaths ==
    /\ pc = "validated"
    /\ \E ord \in Orders :
          ret' = IF pd.nil THEN Panic("FlattenPaths", 0)
                 ELSE Ret("FlattenPaths", 0, FlattenPaths(Visited(pd, ord)))
    /\ pc' = "returned"
    /\ UNCHANGED <<src, cand, cfg, err, pd, env, podErr, items, lines, selected, opened>>

\* The next record is evaluated against the same validated configuration.
NextRecord ==
    /\ pc = "returned" /\ ~ret.panic
    /\ pd' \in CallPods
    /\ ret' = NoRet
    /\ pc' = "validated"
    /\ UNCHANGED <<src, cand, cfg, err, env, podErr, items, lines, selected, opened>>

NextCalls ==
    \/ Validate \/ CallEvaluate \/ CallMatchesPod \/ CallResolveURL \/ CallResolvePath
    \/ CallStringify \/ CallFilterMenuItems \/ CallFlattenPaths \/ NextRecord

SpecCalls == InitCalls /\ [][NextCalls]_vars

(***************************************************************************)
(* Properties of condition evaluation.                                     *)
(***************************************************************************)
Returned(fn) == pc = "returned" /\ ret.fn = fn /\ ~ret.panic

\* The condition the last Evaluate was called on, and what its path resolves to.
TheCond  == TheConds[ret.arg]
Resolved == ResolvePath(pd, TheCond.Path)

\* The compiled pattern r accepts the string s.
Accepts(r, s) == r.set /\ MatchString(r.re, s)

EntriesOf(v) == {v.m[i] : i \in DOMAIN v.m}
ElementsOf(v) == {v.l[i] : i \in DOMAIN v.l}

\* The condition c with another key pattern source, validated.
WithKeyPattern(c, kp) == ValidateCond([c EXCEPT !.KeyPattern = kp], 0, 0).v

\* The key pattern sources of the model that compile.
KeySources == {kp \in EvalPatterns : CompileOK(anchorPattern(kp))}

KeyPatternIgnored ==
    \A kp \in KeySources : Evaluate(WithKeyPattern(TheCond, kp), pd) = ret.val

\* C1: with invert=false and a path that resolves to a map, Evaluate is true
\* exactly when one entry of the map has its key accepted by the compiled
\* keyPattern and its own stringified value accepted by the compiled
\* valuePattern.
C1_MapRule ==
    (Returned("Evaluate") /\ ~TheCond.Invert /\ Resolved.ok /\ Resolved.val.k = "map")
    => (ret.val <=> \E e \in EntriesOf(Resolved.val) :
                        /\ Accepts(TheCond.keyRe, e.key)
                        /\ Accepts(TheCond.valueRe, stringify(e.val)))

\* C1 witness: the key pattern accepts the key of one entry, the value pattern
\* the value of another, no entry has both, and Evaluate returned false.
C1_Witness ==
    /\ Returned("Evaluate") /\ ~TheCond.Invert
    /\ Resolved.ok /\ Resolved.val.k = "map"
    /\ \E e \in EntriesOf(Resolved.val) : Accepts(TheCond.keyRe, e.key)
    /\ \E e \in EntriesOf(Resolved.val) : Accepts(TheCond.valueRe, stringify(e.val))
    /\ ~ret.val

\* The pattern source a compiled pattern of the validated condition came from.
SourceOf(fn) == IF fn = "keyRe" THEN TheConds[1].KeyPattern ELSE TheConds[1].ValuePattern

\* C2: for a pattern source that is a valid expression and that ValidateConfig
\* accepted, the compiled pattern accepts a string only if the source, taken
\* as a whole expression, matches the entire string.
C2_WholeStringOnly ==
    (pc = "returned" /\ ret.fn \in {"keyRe", "valueRe"} /\ ret.val
        /\ CompileOK(SourceOf(ret.fn)))
    => WholeMatch(SourceOf(ret.fn), cand)

\* C3: Evaluate with invert=true is the negation of Evaluate of the otherwise
\* identical condition with invert=false, whatever the path resolves to.
C3_InvertNegates ==
    Returned("Evaluate")
    => /\ ret.val = ~Evaluate([TheCond EXCEPT !.Invert = ~@], pd)
       /\ Evaluate([TheCond EXCEPT !.Invert = TRUE], pd)
            = ~Evaluate([TheCond EXCEPT !.Invert = FALSE], pd)

\* C3 witness: an inverted condition on a path that does not resolve passed.
C3_Witness ==
    Returned("Evaluate") /\ TheCond.Invert /\ ~Resolved.ok /\ ret.val

\* C4: when the path does not resolve, Evaluate is false with invert=false and
\* true with invert=true, whatever the patterns.
C4_MissingPath ==
    (Returned("Evaluate") /\ ~Resolved.ok) => (ret.val = TheCond.Invert)

\* C4 witness: the path k.m meets a string at k while a segment remains; the
\* condition has the default value pattern and did not pass.
C4_Witness ==
    /\ Returned("Evaluate") /\ TheCond.Path = KdotM /\ ~TheCond.Invert
    /\ pd.Parsed.k = "map" /\ HasKey(pd.Parsed.m, K) /\ Get(pd.Parsed.m, K).k = "str"
    /\ TheCond.ValuePattern = DefaultPattern
    /\ ~ret.val

\* C5: with invert=false and a path that resolves to a string, number or
\* boolean, Evaluate is true exactly when the compiled valuePattern accepts the
\* stringified scalar, whatever the keyPattern.
C5_ScalarRule ==
    (Returned("Evaluate") /\ ~TheCond.Invert /\ Resolved.ok
        /\ Resolved.val.k \in {"str", "num", "bool"})
    => /\ ret.val <=> Accepts(TheCond.valueRe, stringify(Resolved.val))
       /\ KeyPatternIgnored

\* C5 witness: a number at k.m passed a condition whose key pattern accepts
\* neither segment's text as a value and whose value pattern is one character.
C5_Witness ==
    /\ Returned("Evaluate") /\ ~TheCond.Invert /\ TheCond.Path = KdotM
    /\ Resolved.ok /\ Resolved.val.k = "num"
    /\ TheCond.KeyPattern = K /\ TheCond.ValuePattern = <<".">>
    /\ ret.val

\* C6: with invert=false and a path that resolves to a sequence, Evaluate is
\* true exactly when the compiled valuePattern accepts the stringified value of
\* at least one element (false for the empty sequence), whatever the keyPattern.
C6_SequenceRule ==
    (Returned("Evaluate") /\ ~TheCond.Invert /\ Resolved.ok /\ Resolved.val.k = "seq")
    => /\ ret.val <=> \E e \in ElementsOf(Resolved.val) :
                          Accepts(TheCond.valueRe, stringify(e))
       /\ KeyPatternIgnored

\* C6 witness: the empty sequence failed a condition with the default patterns.
C6_Witness ==
    /\ Returned("Evaluate") /\ ~TheCond.Invert
    /\ Resolved.ok /\ Resolved.val.k = "seq" /\ Resolved.val.l = <<>>
    /\ TheCond.KeyPattern = DefaultPattern /\ TheCond.ValuePattern = DefaultPattern
    /\ ~ret.val

\* C7: MatchesPod is true exactly when Evaluate is true for every condition of
\* the entry; an entry without conditions matches.
C7_AndSemantics ==
    Returned("MatchesPod")
    => (ret.val <=> \A j \in DOMAIN TheConds : Evaluate(TheConds[j], pd))

\* C7 witness: an entry with a condition on a map and a condition on a scalar
\* matched, and so did the two conditions.
C7_Witness ==
    /\ Returned("MatchesPod") /\ Len(TheConds) = 2
    /\ ResolvePath(pd, TheConds[1].Path).val.k = "map"
    /\ ResolvePath(pd, TheConds[2].Path).val.k = "str"
    /\ Evaluate(TheConds[1], pd) /\ Evaluate(TheConds[2], pd)
    /\ ret.val

(***************************************************************************)
(* Properties of filtering and of main.                                    *)
(***************************************************************************)
AllConditionsPass(it) == \A j \in DOMAIN it.Conditions : Evaluate(it.Conditions[j], pd)
NoConditions(it) == Len(it.Conditions) = 0

\* C8: with a record available, FilterMenuItems returns the entries whose
\* conditions all pass, each once and in the order of the configuration.
C8_FilterExact ==
    (pc = "filtered" /\ ~pd.nil /\ pd.Parsed.k = "map")
    => items = SelectSeq(cfg.MenuItems, AllConditionsPass)

\* C8 witness: of three entries the middle one was dropped and the two others
\* were returned in their order.
C8_Witness ==
    /\ pc = "filtered" /\ ~pd.nil /\ pd.Parsed.k = "map"
    /\ Len(cfg.MenuItems) = 3 /\ Len(items) = 2
    /\ items[1] = cfg.MenuItems[1] /\ items[2] = cfg.MenuItems[3]
    /\ items[1] # items[2]
    /\ ~NoConditions(items[1])

\* C9: without a pod, FilterMenuItems returns the entries without conditions,
\* in the order of the configuration.
C9_NilPod ==
    (pc = "filtered" /\ pd.nil) => items = SelectSeq(cfg.MenuItems, NoConditions)

\* C9 witness: without a pod an entry whose only condition is inverted was
\* dropped and an entry without conditions was kept.
C9_Witness ==
    /\ pc = "filtered" /\ pd.nil
    /\ \E i \in DOMAIN cfg.MenuItems :
          /\ Len(cfg.MenuItems[i].Conditions) = 1
          /\ cfg.MenuItems[i].Conditions[1].Invert
    /\ Len(items) = 1

\* C10: when a pod was named and fetching it failed, the menu holds only
\* entries without conditions and every URL shown is the entry's base URL.
C10_FetchFailed ==
    (pc = "menu" /\ podErr)
    => /\ \A i \in DOMAIN items : NoConditions(items[i])
       /\ Len(lines) = Len(items)
       /\ \A i \in DOMAIN items : SelectedURL(lines[i]) = items[i].URL

(***************************************************************************)
(* Properties of URL resolution.                                           *)
(***************************************************************************)
TheItem == cfg.MenuItems[1]

\* No record, a path that does not resolve, or a path that resolves to null.
Absent(tv) ==
    pd.nil \/ ~ResolvePath(pd, tv.Path).ok \/ ResolvePath(pd, tv.Path).val.k = "null"

\* urlAppend with every $VALUE replaced by the stringified value at the path.
Fragment(tv) ==
    ReplaceAll(tv.URLAppend, Placeholder, stringify(ResolvePath(pd, tv.Path).val))

\* C11: ResolveURL of an entry with one template variable returns the base
\* URL alone exactly when there is no record, the path does not resolve, or it
\* resolves to null; for every other value it returns the base URL followed by
\* the substituted fragment.
C11_SkipRule ==
    (Returned("ResolveURL") /\ Len(TheItem.TemplateVars) = 1)
    => /\ (ret.val = TheItem.URL) <=> Absent(TheItem.TemplateVars[1])
       /\ ~Absent(TheItem.TemplateVars[1])
            => ret.val = TheItem.URL \o Fragment(TheItem.TemplateVars[1])

\* The fragment the claims give a template variable: nothing when absent.
FragmentOf(tv) == IF Absent(tv) THEN <<>> ELSE Fragment(tv)

RECURSIVE Fragments(_, _)
Fragments(tvs, i) ==
    IF i > Len(tvs) THEN <<>> ELSE FragmentOf(tvs[i]) \o Fragments(tvs, i + 1)

\* C12: ResolveURL returns the base URL followed by the fragments of the
\* entry's template variables in declaration order, each fragment decided by
\* its own variable and the record alone.
C12_FragmentsInOrder ==
    Returned("ResolveURL") => ret.val = TheItem.URL \o Fragments(TheItem.TemplateVars, 1)

(***************************************************************************)
(* Properties of main and of loading.                                      *)
(***************************************************************************)
\* The entries of the configuration file with the title of a loaded entry.
FileEntries(it) ==
    {env.file.doc.MenuItems[i] : i \in {j \in DOMAIN env.file.doc.MenuItems :
                                            env.file.doc.MenuItems[j].Title = it.Title}}

\* The placeholder a template variable of the file configures.
PlaceholderOf(raw) == IF raw.Placeholder = <<>> THEN Placeholder ELSE raw.Placeholder

\* The URL of an entry of the file, every variable using its own placeholder.
RECURSIVE ConfiguredURL(_, _, _)
ConfiguredURL(url, raws, i) ==
    IF i > Len(raws) THEN url
    ELSE IF Absent(raws[i]) THEN ConfiguredURL(url, raws, i + 1)
    ELSE ConfiguredURL(
             url \o ReplaceAll(raws[i].URLAppend, PlaceholderOf(raws[i]),
                               stringify(ResolvePath(pd, raws[i].Path).val)),
             raws, i + 1)

\* The menu line of the i-th filtered entry (the DEBUG line may come first).
LineFor(i) == lines[i + Len(lines) - Len(items)]

\* C13: every URL of the menu is the entry's URL with each template variable's
\* urlAppend appended after replacing that variable's configured placeholder
\* ($VALUE when the file omits it) by the resolved value.
C13_OwnPlaceholder ==
    pc = "menu"
    => \A i \in DOMAIN items : \A raw \in FileEntries(items[i]) :
           SelectedURL(LineFor(i)) = ConfiguredURL(raw.URL, raw.TemplateVars, 1)

\* A pattern source compiles after defaulting and anchoring.
Compiles(source) ==
    CompileOK(anchorPattern(IF source = <<>> THEN DefaultPattern ELSE source))

WellFormedCond(c) == c.Path # <<>> /\ Compiles(c.KeyPattern) /\ Compiles(c.ValuePattern)

WellFormedVar(tv) == tv.Path # <<>> /\ tv.URLAppend # <<>>

WellFormedItem(it) ==
    /\ it.Title # <<>> /\ it.URL # <<>>
    /\ \A j \in DOMAIN it.Conditions : WellFormedCond(it.Conditions[j])
    /\ \A j \in DOMAIN it.TemplateVars : WellFormedVar(it.TemplateVars[j])

WellFormed(c) ==
    /\ Len(c.MenuItems) >= 1
    /\ \A i \in DOMAIN c.MenuItems : WellFormedItem(c.MenuItems[i])

\* C14: ValidateConfig returns no error exactly when the configuration has an
\* entry, every entry a title and a url, every condition a path and patterns
\* that compile after defaulting and anchoring, and every template variable a
\* path and a urlAppend.
C14_ValidIffWellFormed ==
    [][pc = "raw" => (err' = NoErr <=> WellFormed(cfg))]_vars

\* C14 witness: a configuration was rejected for its second template
\* variable, which has no urlAppend.
C14_Witness ==
    pc = "rejected" /\ err.msg = "templateVars empty urlAppend" /\ err.elem = 1

\* C15: when ValidateConfig returns an error the Config is as it was before
\* the call, and LoadConfig of the same document returns the empty Config
\* with that error.
C15_NothingPartial ==
    [][(pc = "raw" /\ err' # NoErr)
        => /\ cfg' = cfg
           /\ LoadConfig([ok |-> TRUE, doc |-> cfg]) = [v |-> Config(<<>>), err |-> err']]_vars

\* C16: the first step of main loads and validates the configuration and
\* touches nothing else; every later step is taken with no error and leaves
\* the configuration alone; a failed load ends main, and no step follows it
\* (no pod fetched, no entry filtered, no chooser, no URL opened).
C16_LoadFirst ==
    [][/\ pc = "start" => /\ pc' \in {"loaded", "exit"}
                          /\ (pc' = "exit") <=> (err' # NoErr)
                          /\ UNCHANGED <<pd, podErr, items, lines, selected, opened>>
       /\ pc # "start" => err = NoErr /\ UNCHANGED <<cfg, err>>
       /\ pc # "exit"]_vars

\* C16 witness: with a pod named, main ended on a pattern that does not
\* compile, with no pod made and nothing filtered, shown or opened.
C16_Witness ==
    /\ pc = "exit" /\ err.msg = "invalid keyPattern" /\ env.pod # <<>>
    /\ pd.nil /\ items = <<>> /\ lines = <<>> /\ opened = <<>>

\* C17: a call of Evaluate, MatchesPod or ResolveURL on a validated entry
\* returns a result, whatever the record, also without a pod and with a pod
\* whose document was never parsed: it never panics.
C17_NeverFails ==
    (pc = "returned" /\ ret.fn \in {"Evaluate", "MatchesPod", "ResolveURL"}) => ~ret.panic

(***************************************************************************)
(* Properties of path resolution, anchoring and validation.                *)
(***************************************************************************)
\* The values reached from v by looking up the segments in turn as map keys:
\* one value, or none when a key is missing or a value on the way is no map.
RECURSIVE Lookup(_, _)
Lookup(v, segs) ==
    IF segs = <<>> THEN {v}
    ELSE IF v.k \in {"map", "nilmap"} /\ HasKey(v.m, Head(segs))
    THEN Lookup(Get(v.m, Head(segs)), Tail(segs))
    ELSE {}

\* C18: for a path of non-empty segments ResolvePath finds v exactly when
\* looking up each segment in turn as a map key, from the root, reaches v
\* through maps only; it finds nothing when a key is missing or a segment
\* lands on a value that is no map while segments remain.
C18_ExactLookup ==
    Returned("ResolvePath")
    => /\ ret.val.ok <=> Lookup(pd.Parsed, ret.arg) # {}
       /\ ret.val.ok => ret.val.val \in Lookup(pd.Parsed, ret.arg)

\* C18 witness: a path of three segments was found through two maps.
C18_Witness ==
    /\ Returned("ResolvePath") /\ Len(ret.arg) = 3
    /\ ret.val.ok /\ ret.val.val.k = "str"

\* C19: anchorPattern puts "^" in front exactly when the source does not start
\* with it and "$" behind exactly when the source does not end with it, each
\* end on its own; the result starts with "^", ends with "$", and anchoring
\* it again changes nothing.
C19_AnchorEnds ==
    Returned("anchorPattern")
    => /\ ret.val = (IF HasPrefix(src, "^") THEN <<>> ELSE <<"^">>) \o src
                    \o (IF HasSuffix(src, "$") THEN <<>> ELSE <<"$">>)
       /\ HasPrefix(ret.val, "^") /\ HasSuffix(ret.val, "$")
       /\ anchorPattern(ret.val) = ret.val

\* C19 witness: a source that starts with "^" got the "$" only.
C19_Witness ==
    Returned("anchorPattern") /\ src = <<"^", "k">> /\ ret.val = <<"^", "k", "$">>

\* The source a pattern field holds after validation: ".*" for an omitted
\* one, the supplied one otherwise.
SourceAfter(pattern) == IF pattern = <<>> THEN DefaultPattern ELSE pattern

\* A validated condition, given the condition as it was configured.
CompiledFrom(before, after) ==
    /\ after.KeyPattern # <<>> /\ after.ValuePattern # <<>>
    /\ after.KeyPattern = SourceAfter(before.KeyPattern)
    /\ after.ValuePattern = SourceAfter(before.ValuePattern)
    /\ CompileOK(anchorPattern(after.KeyPattern))
    /\ CompileOK(anchorPattern(after.ValuePattern))
    /\ after.keyRe = Compiled(anchorPattern(after.KeyPattern))
    /\ after.valueRe = Compiled(anchorPattern(after.ValuePattern))

\* C20: when ValidateConfig returns without error, every condition of every
\* entry has non-empty pattern sources (".*" where one was omitted, the
\* supplied source otherwise) and holds the regexes compiled from the
\* anchored sources.
C20_Compiled ==
    [][(pc = "raw" /\ pc' = "validated" /\ err' = NoErr)
       => \A i \in 1..Len(cfg.MenuItems) :
            \A j \in 1..Len(cfg.MenuItems[i].Conditions) :
               CompiledFrom(cfg.MenuItems[i].Conditions[j],
                            cfg'.MenuItems[i].Conditions[j])]_vars

\* C20 witness: a validated configuration with a condition whose key pattern
\* was omitted and whose value pattern was supplied.
C20_Witness ==
    /\ pc = "validated" /\ err = NoErr
    /\ \E i \in 1..Len(cfg.MenuItems) :
         \E j \in 1..Len(cfg.MenuItems[i].Conditions) :
            LET c == cfg.MenuItems[i].Conditions[j]
            IN  /\ c.KeyPattern = DefaultPattern
                /\ c.keyRe = Compiled(<<"^", ".", "*", "$">>)
                /\ c.ValuePattern \notin {<<>>, DefaultPattern}
                /\ c.valueRe = Compiled(anchorPattern(c.ValuePattern))

(***************************************************************************)
(* Properties of error reporting, frames and the diagnostic listing.       *)
(***************************************************************************)
IfThen(b, e) == IF b THEN <<e>> ELSE <<>>

\* Every violation of a configuration, in traversal order (indices from 0).
CondViolations(c, i, j) ==
    IfThen(c.Path = <<>>, Error("empty path", i, j))
    \o IfThen(~Compiles(c.KeyPattern), Error("invalid keyPattern", i, j))
    \o IfThen(~Compiles(c.ValuePattern), Error("invalid valuePattern", i, j))

VarViolations(tv, i, j) ==
    IfThen(tv.Path = <<>>, Error("templateVars empty path", i, j))
    \o IfThen(tv.URLAppend = <<>>, Error("templateVars empty urlAppend", i, j))

ItemViolations(it, i) ==
    IfThen(it.Title = <<>>, Error("empty title", i, -1))
    \o IfThen(it.URL = <<>>, Error("empty url", i, -1))
    \o Flat([j \in DOMAIN it.Conditions |-> CondViolations(it.Conditions[j], i, j - 1)])
    \o Flat([j \in DOMAIN it.TemplateVars |-> VarViolations(it.TemplateVars[j], i, j - 1)])

AllViolations(c) ==
    IF c.MenuItems = <<>> THEN <<Error("no menu items", -1, -1)>>
    ELSE Flat([i \in DOMAIN c.MenuItems |-> ItemViolations(c.MenuItems[i], i - 1)])

\* Condition j of entry i (from 1) comes after the place the error e names.
AfterError(e, i, j) ==
    \/ i - 1 > e.item
    \/ /\ i - 1 = e.item
       /\ \/ e.msg \in {"empty title", "empty url"}
          \/ e.msg \in {"empty path", "invalid keyPattern", "invalid valuePattern"}
             /\ j - 1 > e.elem

\* C21: ValidateConfig returns the first violation in traversal order, with
\* its entry index, element index and field, and leaves every condition
\* after that place as it was.
C21_FirstViolation ==
    [][pc = "raw"
       => /\ err' = IF AllViolations(cfg) = <<>> THEN NoErr ELSE Head(AllViolations(cfg))
          /\ err' # NoErr
             => \A i \in DOMAIN cfg.MenuItems : \A j \in DOMAIN cfg.MenuItems[i].Conditions :
                   AfterError(err', i, j)
                   => cfg'.MenuItems[i].Conditions[j] = cfg.MenuItems[i].Conditions[j]]_vars

\* C21 witness: a configuration with three violations or more was rejected
\* for a value pattern, with violating template variables behind it.
C21_Witness ==
    /\ pc = "rejected" /\ err.msg = "invalid valuePattern"
    /\ Len(AllViolations(cfg)) >= 3
    /\ cfg.MenuItems[err.item + 1].TemplateVars # <<>>

\* C22: ResolvePath finds nothing for the empty path and for a path with an
\* empty segment, whatever the record.
C22_EmptySegment ==
    (Returned("ResolvePath") /\ \E i \in DOMAIN ret.arg : ret.arg[i] = <<>>)
    => ~ret.val.ok

\* The map value v with the key at the end of the path segs removed.
RECURSIVE WithoutKey(_, _)
WithoutKey(v, segs) ==
    IF Len(segs) = 1 THEN MapV(SelectSeq(v.m, LAMBDA e : e.key # segs[1]))
    ELSE MapV([i \in DOMAIN v.m |->
                  IF v.m[i].key = segs[1]
                  THEN Entry(v.m[i].key, WithoutKey(v.m[i].val, Tail(segs)))
                  ELSE v.m[i]])

\* The record of p with the final key of path removed.
PodWithout(p, path) == [p EXCEPT !.Parsed = WithoutKey(@, Split(path))]

\* The path resolves, and to null.
NullAt(path) == ResolvePath(pd, path) = [val |-> Null, ok |-> TRUE]

ForMenuLine(o) ==
    \/ o.export /\ selected = TrimSpace(DebugLine) /\ DebugLine \in {lines[j] : j \in DOMAIN lines}
    \/ /\ ~o.export
       /\ \E j \in DOMAIN items :
             /\ selected = TrimSpace(LineOf(items[j], pd))
             /\ o.url = ResolveURL(items[j], pd)

\* C30: main opens a URL or exports the listing only for a menu line the
\* chooser returned; with no selection it does neither.
C30_OpenOnlySelected ==
    \A i \in DOMAIN opened : selected # <<>> /\ ForMenuLine(opened[i])

(***************************************************************************)
(* Properties of stringify.                                                *)
(***************************************************************************)
\* The value stringify was called on.
TheValue == Get(pd.Parsed.m, K)

\* The decimal integer text of the integral number v.
DecimalText(v) ==
    IF v.n = 0 THEN <<"0">>
    ELSE (IF v.n < 0 THEN <<"-">> ELSE <<>>)
         \o Digits(IF v.n < 0 THEN -v.n ELSE v.n) \o [i \in 1 .. v.e |-> "0"]

Has(s, c) == \E i \in DOMAIN s : s[i] = c

\* C27: stringify returns a string as it is, "true" or "false" for a
\* boolean, the empty text for null, and for an integral number its decimal
\* integer text, without a fractional part and without an exponent.
C27_Stringify ==
    Returned("stringify")
    => /\ TheValue.k = "str" => ret.val = TheValue.s
       /\ TheValue.k = "bool"
          => ret.val = IF TheValue.b THEN <<"t", "r", "u", "e">>
                       ELSE <<"f", "a", "l", "s", "e">>
       /\ TheValue.k = "null" => ret.val = <<>>
       /\ TheValue.k = "num"
          => /\ ret.val = DecimalText(TheValue)
             /\ ~Has(ret.val, ".") /\ ~Has(ret.val, "e")

(***************************************************************************)
(* Properties of conditions that give a path only.                         *)
(***************************************************************************)
\* The path resolves to a scalar that is not null, to a map with an entry, or
\* to a sequence with an element.
HoldsSomething(r) ==
    /\ r.ok
    /\ \/ r.val.k \in {"str", "num", "bool"}
       \/ r.val.k = "map" /\ r.val.m # <<>>
       \/ r.val.k = "seq" /\ r.val.l # <<>>

\* C28: a validated condition with both patterns defaulted evaluates, without
\* invert, to true exactly when its path resolves to a scalar that is not
\* null, a map with an entry or a sequence with an element, and with invert
\* to the opposite.
C28_PathOnly ==
    (/\ Returned("Evaluate")
     /\ TheCond.KeyPattern = DefaultPattern /\ TheCond.ValuePattern = DefaultPattern)
    => ret.val = IF TheCond.Invert THEN ~HoldsSomething(Resolved) ELSE HoldsSomething(Resolved)

(***************************************************************************)
(* Properties of the diagnostic listing.                                   *)
(***************************************************************************)
\* The leaves (scalars and nulls) under v, reached by the segments segs: for
\* each its path, the segments joined with ".", and its line.
RECURSIVE LeafLines(_, _)
LeafLines(v, segs) ==
    CASE v.k \in {"map", "nilmap"} ->
            Flat([i \in DOMAIN v.m |-> LeafLines(v.m[i].val, Append(segs, v.m[i].key))])
      [] v.k = "seq" ->
            Flat([i \in DOMAIN v.l |-> LeafLines(v.l[i], Append(segs, Digits(i - 1)))])
      [] OTHER ->
            <<[path |-> JoinDot(segs),
               line |-> JoinDot(segs) \o <<" ", "=", " ">> \o stringify(v)]>>

\* The lines are those of the leaves, one for each, in an order of
\* nondecreasing paths.
ListsByPath(ls, leaves) ==
    /\ Len(ls) = Len(leaves)
    /\ \E f \in Permutations(DOMAIN leaves) :
          /\ \A i \in DOMAIN ls : ls[i] = leaves[f[i]].line
          /\ \A i, j \in DOMAIN ls :
                i < j => ~StrLess(leaves[f[j]].path, leaves[f[i]].path)

\* C26: FlattenPaths returns one line "path = value" for every scalar or null
\* leaf of the record, the path made of the map keys and sequence indices on
\* the way joined with ".", the value stringified (empty for null), and the
\* lines ordered by path.
C26_Listing ==
    Returned("FlattenPaths") => ListsByPath(ret.val, LeafLines(pd.Parsed, <<>>))

\* A line "p = v" read back: p is what stands before the first " = ", v what
\* stands behind it.
Equals == <<" ", "=", " ">>
EqualsAt(line) ==
    CHOOSE i \in DOMAIN line :
        IsAt(line, i, Equals) /\ \A j \in 1 .. (i - 1) : ~IsAt(line, j, Equals)
PathOfLine(line)  == SubSeq(line, 1, EqualsAt(line) - 1)
ValueOfLine(line) == SubSeq(line, EqualsAt(line) + Len(Equals), Len(line))

\* C29: every line "p = v" of FlattenPaths names a path that ResolvePath
\* finds on the same record, and the stringified value found is v.
C29_ListedPathsResolve ==
    Returned("FlattenPaths")
    => \A i \in DOMAIN ret.val :
          /\ ResolvePath(pd, PathOfLine(ret.val[i])).ok
          /\ stringify(ResolvePath(pd, PathOfLine(ret.val[i])).val) = ValueOfLine(ret.val[i])

(***************************************************************************)
(* Properties of determinism and of what the calls leave alone.            *)
(***************************************************************************)
\* C24: what Evaluate, MatchesPod, FilterMenuItems, ResolveURL and
\* FlattenPaths return for a validated configuration and a record is the same
\* for every order in which the entries of the record's maps are visited.
C24_Deterministic ==
    \A ord \in Orders :
        /\ Returned("Evaluate") => ret.val = Evaluate(TheCond, Visited(pd, ord))
        /\ Returned("MatchesPod") => ret.val = MatchesPod(TheItem, Visited(pd, ord))
        /\ Returned("FilterMenuItems")
           => ret.val = FilterMenuItems(cfg.MenuItems, Visited(pd, ord))
        /\ Returned("ResolveURL") => ret.val = ResolveURL(TheItem, Visited(pd, ord))
        /\ Returned("FlattenPaths") => ret.val = FlattenPaths(Visited(pd, ord))

\* C24 witness: FlattenPaths returned three lines for a record whose lines
\* are collected in different orders under different orders of visit.
C24_Witness ==
    /\ Returned("FlattenPaths") /\ Len(ret.val) = 3
    /\ \E ord \in Orders :
          flattenRecurse(<<>>, Visited(pd, ord).Parsed) # flattenRecurse(<<>>, pd.Parsed)

\* The configuration as validation left it, before any call.
Fresh == ValidateConfig(env.file.doc).v

\* What the call that returned gives for the record alone, on the
\* configuration as validation left it.
Alone ==
    CASE ret.fn = "ResolvePath"     -> ResolvePath(pd, JoinDot(ret.arg))
      [] ret.fn = "Evaluate"        -> Evaluate(Fresh.MenuItems[1].Conditions[ret.arg], pd)
      [] ret.fn = "MatchesPod"      -> MatchesPod(Fresh.MenuItems[1], pd)
      [] ret.fn = "FilterMenuItems" -> FilterMenuItems(Fresh.MenuItems, pd)
      [] ret.fn = "ResolveURL"      -> ResolveURL(Fresh.MenuItems[1], pd)
      [] ret.fn = "FlattenPaths"    -> FlattenPaths(pd)
      [] OTHER                      -> ret.val

\* C25: a call of ResolvePath, Evaluate, MatchesPod, FilterMenuItems,
\* ResolveURL or FlattenPaths changes neither the record nor the validated
\* configuration, going on to another record leaves the configuration as it
\* is, and so every call, after any number of calls on other records,
\* returns what it returns for its record alone.
C25_Frame ==
    /\ [][(pc \in {"validated", "returned"}) => (cfg' = cfg)]_vars
    /\ [][(pc = "validated" /\ pc' = "returned") => (pd' = pd)]_vars
    /\ [](pc = "returned" /\ ~ret.panic => ret.val = Alone)

\* C25 witness: ResolveURL returned a URL with a fragment, and the
\* configuration is as validation left it.
C25_Witness ==
    /\ Returned("ResolveURL") /\ Len(ret.val) > Len(TheItem.URL)
    /\ cfg = Fresh

====
